---------------------------- MODULE Spec2Model ----------------------------
(***************************************************************************)
(* Model of the queue state manager of src/src/context/QueueContext.tsx    *)
(* (QueueProvider): the three React state collections services, counters   *)
(* and queue of every browser tab, the localStorage keys they are mirrored *)
(* to, the six mutating operations, the save / waiting-count effects and   *)
(* the reconciliation from the store (syncFromStorage).                    *)
(*                                                                         *)
(* Conventions.                                                            *)
(*  - null is the string Null; an undefined optional field of a ticket is  *)
(*    the temporal value Undefined (calledAt, completedAt) or the counter  *)
(*    id 0 (counterAssigned: 0 and undefined are both falsy at line 362    *)
(*    and no counter has id 0).                                            *)
(*  - a temporal value is a record [kind, ms]: kind "Date" is a Date       *)
(*    object, kind "text" the ISO string JSON.stringify turns it into,     *)
(*    kind "Invalid Date" a Date whose time is NaN, kind "null" the null   *)
(*    JSON.stringify writes for it.                                        *)
(*  - customerName, purpose and notes are payload copied verbatim that no  *)
(*    operation reads; they are left out of the ticket record.             *)
(***************************************************************************)
EXTENDS Integers, Sequences, FiniteSets, TLC

(***************************************************************************)
(* Bounds of the model.                                                    *)
(***************************************************************************)
\* tickets a tab may hold in its queue before addToQueue is no longer taken
MaxTickets == 2
\* last value of the millisecond clock Date.now()
MaxTime == 2

Tabs == {1, 2}

Null == "null"
Undefined == [kind |-> "undefined", ms |-> 0]

DateOf(ms) == [kind |-> "Date", ms |-> ms]

Priorities == {"normal", "urgent", "vip"}
ServiceIds == {"general", "facility"}
ServiceInputs == ServiceIds \cup {"unknown"}
CounterInputs == {1, 2, 3, 9}

(***************************************************************************)
(* Number.prototype.toString and String.prototype.padStart (line 243).     *)
(***************************************************************************)
Digits == <<"0", "1", "2", "3", "4", "5", "6", "7", "8", "9">>

RECURSIVE NumToString(_)
NumToString(n) ==
    IF n < 10 THEN Digits[n + 1]
    ELSE NumToString(n \div 10) \o Digits[(n % 10) + 1]

RECURSIVE PadStart(_, _, _)
PadStart(s, targetLength, fill) ==
    IF Len(s) >= targetLength THEN s
    ELSE PadStart(fill \o s, targetLength, fill)

PadWidth == 3

TicketNumber(prefix, newNumber) ==
    prefix \o PadStart(NumToString(newNumber), PadWidth, "0")

TicketId(serviceType, ms) == serviceType \o "-" \o NumToString(ms)

(***************************************************************************)
(* Seed values (lines 116-136, repeated at 94-104 and 458-467).            *)
(***************************************************************************)
InitialServices ==
    << [id |-> "general", name |-> "Pelayanan Umum", prefix |-> "A",
        currentNumber |-> 0, served |-> 0, waiting |-> 0],
       [id |-> "facility", name |-> "Fasilitas", prefix |-> "D",
        currentNumber |-> 0, served |-> 0, waiting |-> 0] >>

InitialCounters ==
    << [id |-> 1, name |-> "Counter 1", status |-> "active",
        currentlyServing |-> Null, serviceType |-> Null],
       [id |-> 2, name |-> "Counter 2", status |-> "active",
        currentlyServing |-> Null, serviceType |-> Null],
       [id |-> 3, name |-> "Counter 3", status |-> "inactive",
        currentlyServing |-> Null, serviceType |-> Null],
       [id |-> 4, name |-> "Counter 4", status |-> "inactive",
        currentlyServing |-> Null, serviceType |-> Null] >>

(***************************************************************************)
(* Array helpers: filter, map, find.                                       *)
(***************************************************************************)
Map(s, F(_)) == [i \in 1..Len(s) |-> F(s[i])]

Range(s) == {s[i] : i \in 1..Len(s)}

\* Array.prototype.find: the first element with P, as <<element>>, or <<>>
Find(s, P(_)) ==
    LET hits == {i \in 1..Len(s) : P(s[i])}
    IN  IF hits = {} THEN <<>>
        ELSE <<s[CHOOSE i \in hits : \A j \in hits : i <= j]>>

(***************************************************************************)
(* The comparators handed to Array.prototype.sort.                         *)
(***************************************************************************)
PriorityOrder(p) ==
    CASE p = "vip" -> 3
      [] p = "urgent" -> 2
      [] p = "normal" -> 1

\* getTime() of an invalid Date is NaN, and a comparator that returns NaN has
\* returned 0
TimeDifference(a, b) ==
    IF a.timestamp.kind = "Invalid Date" \/ b.timestamp.kind = "Invalid Date" THEN 0
    ELSE a.timestamp.ms - b.timestamp.ms

\* lines 292-297 (callNext)
ComparePriority(a, b) ==
    IF PriorityOrder(a.priority) # PriorityOrder(b.priority)
    THEN PriorityOrder(b.priority) - PriorityOrder(a.priority)
    ELSE TimeDifference(a, b)

\* lines 265-274 (addToQueue): 0 as soon as one of the two is not waiting
CompareWaiting(a, b) ==
    IF a.status # "waiting" \/ b.status # "waiting" THEN 0
    ELSE ComparePriority(a, b)

\* lines 419 and 427 (getTicketPosition, getAllWaitingTickets)
CompareTimestamp(a, b) == TimeDifference(a, b)

Compare(cmp, a, b) ==
    CASE cmp = "waiting" -> CompareWaiting(a, b)
      [] cmp = "priority" -> ComparePriority(a, b)
      [] cmp = "timestamp" -> CompareTimestamp(a, b)

(***************************************************************************)
(* Array.prototype.sort as the engine runs it on arrays shorter than 64    *)
(* elements (every array of this model): one run is counted from the left  *)
(* and made ascending, the rest is inserted by binary insertion.  The      *)
(* order of the result under the inconsistent comparator CompareWaiting is *)
(* the one this procedure produces.                                        *)
(***************************************************************************)
Reverse(s) == [i \in 1..Len(s) |-> s[Len(s) + 1 - i]]

\* length of the run starting at index 1: idx is the next index to look at
RECURSIVE RunLength(_, _, _, _)
RunLength(cmp, arr, idx, isDescending) ==
    IF idx > Len(arr) THEN idx - 1
    ELSE LET order == Compare(cmp, arr[idx], arr[idx - 1])
         IN  IF (isDescending /\ order >= 0) \/ (~isDescending /\ order < 0)
             THEN idx - 1
             ELSE RunLength(cmp, arr, idx + 1, isDescending)

\* the index at which pivot is inserted into arr[1..start-1] (1-based)
RECURSIVE BinarySearch(_, _, _, _, _)
BinarySearch(cmp, arr, pivot, left, right) ==
    IF left >= right THEN left
    ELSE LET mid == left + ((right - left) \div 2)
         IN  IF Compare(cmp, pivot, arr[mid]) < 0
             THEN BinarySearch(cmp, arr, pivot, left, mid)
             ELSE BinarySearch(cmp, arr, pivot, mid + 1, right)

RECURSIVE BinaryInsertionSort(_, _, _)
BinaryInsertionSort(cmp, arr, start) ==
    IF start > Len(arr) THEN arr
    ELSE LET pivot == arr[start]
             left == BinarySearch(cmp, arr, pivot, 1, start)
             moved == [p \in 1..Len(arr) |->
                         IF p < left \/ p > start THEN arr[p]
                         ELSE IF p = left THEN pivot
                         ELSE arr[p - 1]]
         IN  BinaryInsertionSort(cmp, moved, start + 1)

Sort(cmp, arr) ==
    IF Len(arr) < 2 THEN arr
    ELSE LET isDescending == Compare(cmp, arr[2], arr[1]) < 0
             runLength == RunLength(cmp, arr, 3, isDescending)
             run == IF isDescending
                    THEN Reverse(SubSeq(arr, 1, runLength))
                         \o SubSeq(arr, runLength + 1, Len(arr))
                    ELSE arr
         IN  BinaryInsertionSort(cmp, run, runLength + 1)

(***************************************************************************)
(* State.  A handler of QueueProvider is a closure of one render: it reads *)
(* the collections of that render (lines 239, 245, 289, 308, 343) and      *)
(* queues state updates; React applies the queued updates in order, each   *)
(* to the result of the one before, and renders again; the effects of the  *)
(* render run after it with the collections of that render.  services,     *)
(* counters and queue hold the state with every queued update applied,     *)
(* rendered the collections of the last render.                            *)
(*                                                                         *)
(* Two updaters read the clock themselves (calledAt: new Date(), line 318; *)
(* completedAt: new Date(), line 357), so the time they stamp is the time  *)
(* React runs them at: the time of the render that applies the queued      *)
(* updates, or the time of the call when React computes the state of the   *)
(* update at once, which it may do for the first update queued after a     *)
(* render.  queue holds the result of the queued updaters run at the       *)
(* present clock value, later their result run at each clock value after   *)
(* it; services and counters do not depend on the time of the run.         *)
(***************************************************************************)
VARIABLES
    services,      \* services[t]: the React state `services` of tab t
    counters,      \* counters[t]: the React state `counters` of tab t
    queue,         \* queue[t]: the React state `queue` of tab t
    later,         \* later[t][k]: queue[t] if the queued updaters run k ms from now
    rendered,      \* rendered[t]: the three collections as tab t last rendered them
    changed,       \* changed[t]: the collections set since tab t's last render
    pending,       \* pending[t]: effects of tab t's last render still to run
    localStorage,  \* the three keys shared by the tabs
    now,           \* Date.now(), in milliseconds
    result,        \* the last call of an operation and what it returned
    returned,      \* the tickets successful callNext calls returned, in order
    listeners,     \* tab 1's reconciliation listeners and timers (lines 139-196)
    events         \* the listener events counted so far (two tabs)

vars == <<services, counters, queue, later, rendered, changed, pending, localStorage,
          now, result, returned, listeners, events>>

\* a key of localStorage: absent, or the JSON text written under it
Absent == [present |-> FALSE, form |-> "none", value |-> <<>>]
Item(text) == [present |-> TRUE, form |-> "array", value |-> text]

\* a text under a key that is not the JSON of a collection: "" (empty), a text
\* JSON.parse rejects (unparseable), "{}" (object), "null", "[null]" (nullItems)
JunkForms == {"empty", "unparseable", "object", "null", "nullItems"}
Junk(form) == [present |-> TRUE, form |-> form, value |-> <<>>]

\* what JSON.parse returns for "{}", "null" and "[null]"
Parsed(form) == <<[junk |-> form]>>

\* the listeners effect has run: listeners added, interval set, no timeout
\* (delayed: the timeouts of line 172; syncTimeout: the one of line 181, -1
\* when none is set)
Mounted == [mounted |-> TRUE, delayed |-> <<>>, syncTimeout |-> -1]

\* what one tab works on: its state, its last render, the store, its effects
\* and its timers (the timers of tab 2 are not followed: its reconciliations
\* are steps it may take at any time)
TabState(t) ==
    [services |-> services[t], counters |-> counters[t], queue |-> queue[t],
     later |-> later[t],
     rendered |-> rendered[t], changed |-> changed[t], pending |-> pending[t],
     store |-> localStorage,
     listeners |-> IF t = 1 THEN listeners ELSE Mounted]

(***************************************************************************)
(* JSON.stringify of the queue: a Date becomes its ISO text, an invalid    *)
(* Date becomes null, an undefined field is left out (it stays Undefined). *)
(* The JSON text is identified with the value JSON.parse reads back from   *)
(* it.  Services and counters hold numbers, strings and null only, which   *)
(* JSON.stringify keeps.                                                   *)
(***************************************************************************)
ToJSON(d) ==
    CASE d.kind = "Date" -> [kind |-> "text", ms |-> d.ms]
      [] d.kind = "Invalid Date" -> [kind |-> "null", ms |-> 0]
      [] OTHER -> d

StringifyTicket(t) ==
    [t EXCEPT !.timestamp = ToJSON(t.timestamp),
              !.calledAt = ToJSON(t.calledAt),
              !.completedAt = ToJSON(t.completedAt)]

StringifyQueue(q) == Map(q, StringifyTicket)

\* new Date(value) (line 80): the Date of an ISO text, the epoch for null, an
\* invalid Date (getTime() is NaN) for undefined
NewDate(d) ==
    CASE d.kind = "undefined" -> [kind |-> "Invalid Date", ms |-> 0]
      [] d.kind = "null" -> [kind |-> "Date", ms |-> 0]
      [] OTHER -> [kind |-> "Date", ms |-> d.ms]

\* lines 71-89: a missing or empty text is falsy (line 74); a throw of
\* JSON.parse, or of item.timestamp on a null item, is caught and the default
\* returned (lines 84-88); any other parsed value is returned as it is
loadFromStorage(store, key, defaultValue) ==
    LET stored == store[key]
    IN  IF stored.present /\ stored.form # "empty"
        THEN CASE stored.form = "array" ->
                    IF key = "queueData"
                    THEN Map(stored.value,
                             LAMBDA item :
                                [item EXCEPT !.timestamp = NewDate(item.timestamp)])
                    ELSE stored.value
               [] stored.form = "unparseable" -> defaultValue
               [] stored.form = "nullItems" ->
                    IF key = "queueData" THEN defaultValue ELSE Parsed(stored.form)
               [] OTHER -> Parsed(stored.form)
        ELSE defaultValue

(***************************************************************************)
(* Queries.                                                                *)
(***************************************************************************)
IsWaitingFor(ticket, serviceType) ==
    ticket.serviceType = serviceType /\ ticket.status = "waiting"

\* lines 406-410
getWaitingCount(q, serviceType) ==
    Len(SelectSeq(q, LAMBDA ticket : IsWaitingFor(ticket, serviceType)))

(***************************************************************************)
(* The render (lines 68, 116-136): the queued updates become the           *)
(* collections the handlers and effects of this render read; the effects   *)
(* whose dependencies were set run after it, in the order they are         *)
(* declared (lines 198-235).                                               *)
(***************************************************************************)
EffectOrder == <<"saveServices", "saveCounters", "saveQueue", "waiting">>

\* the effects of the first render: the listeners effect (lines 139-196), which
\* adds the listeners and sets the interval, comes before the others
MountEffects == <<"listeners">> \o EffectOrder

EffectsAfter(set) ==
    SelectSeq(EffectOrder,
              LAMBDA e :
                 \/ e = "saveServices" /\ "services" \in set
                 \/ e = "saveCounters" /\ "counters" \in set
                 \/ e = "saveQueue" /\ "queue" \in set
                 \/ e = "waiting" /\ set \cap {"services", "queue"} # {})

Collections(m) ==
    [services |-> m.services, counters |-> m.counters, queue |-> m.queue]

\* the queued updaters have run at the present clock value: no later run
Settled(q, n) == [k \in 1..n |-> q]

render(m) ==
    [m EXCEPT !.rendered = Collections(m),
              !.later = Settled(m.queue, Len(m.later)),
              !.pending = EffectsAfter(m.changed),
              !.changed = {}]

\* setQueue(updater): updater(prev, k) is what the updater returns for prev
\* when React runs it k ms from now
SetQueue(m, updater(_, _)) ==
    [m EXCEPT !.queue = updater(m.queue, 0),
              !.later = [k \in 1..Len(m.later) |-> updater(m.later[k], k)]]

\* d ms pass: the updaters still queued will run at a clock value after them
Advance(m, d) ==
    IF d = 0 THEN m
    ELSE [m EXCEPT !.queue = m.later[d],
                   !.later = SubSeq(m.later, d + 1, Len(m.later))]

(***************************************************************************)
(* The listener of the queueDataChanged signal (lines 170-173): every save *)
(* effect dispatches the signal on the tab's own window, and the listener  *)
(* sets a timeout of 100 ms that calls syncFromStorage.  The timers count  *)
(* the units of 100 ms left until they are due.                            *)
(***************************************************************************)
\* setTimeout(() => syncFromStorage(), 100), line 172
DelayUnits == 1
\* setTimeout(syncFromStorage, 500), line 181
DebounceUnits == 5

handleQueueDataChange(l) ==
    IF l.mounted THEN [l EXCEPT !.delayed = Append(@, DelayUnits)] ELSE l

(***************************************************************************)
(* Effects (lines 198-235).                                                *)
(***************************************************************************)
\* an effect that leaves the cached counts as they are
WaitingCountSkipped(m) == [m EXCEPT !.pending = Tail(m.pending)]

\* lines 218-235
WaitingCountEffect(m) ==
    LET updatedServices ==
            Map(m.rendered.services,
                LAMBDA service :
                   [service EXCEPT
                       !.waiting = getWaitingCount(m.rendered.queue, service.id)])
        hasChanged ==
            \E index \in 1..Len(m.rendered.services) :
                m.rendered.services[index].waiting # updatedServices[index].waiting
    IN  IF hasChanged
        THEN [m EXCEPT !.services = updatedServices,
                       !.changed = @ \cup {"services"},
                       !.pending = Tail(m.pending)]
        ELSE [m EXCEPT !.pending = Tail(m.pending)]

\* the first pending effect of a tab
StepEffect(m) ==
    LET e == Head(m.pending)
    IN  CASE e = "saveServices" ->
               [m EXCEPT !.store.queueServices = Item(m.rendered.services),
                         !.listeners = handleQueueDataChange(@),
                         !.pending = Tail(m.pending)]
          [] e = "saveCounters" ->
               [m EXCEPT !.store.queueCounters = Item(m.rendered.counters),
                         !.listeners = handleQueueDataChange(@),
                         !.pending = Tail(m.pending)]
          [] e = "saveQueue" ->
               [m EXCEPT !.store.queueData = Item(StringifyQueue(m.rendered.queue)),
                         !.listeners = handleQueueDataChange(@),
                         !.pending = Tail(m.pending)]
          [] e = "waiting" -> WaitingCountEffect(m)
          [] e = "listeners" ->
               [m EXCEPT !.listeners = Mounted, !.pending = Tail(m.pending)]

\* the effects of a render run one after the other, in one task of the tab
RECURSIVE RunPending(_)
RunPending(m) == IF m.pending = <<>> THEN m ELSE RunPending(StepEffect(m))

\* the pending effects run, the tab renders, and so on until nothing is left
RECURSIVE RunEffects(_)
RunEffects(m) ==
    IF m.pending # <<>> THEN RunEffects(RunPending(m))
    ELSE IF m.changed # {} THEN RunEffects(render(m))
    ELSE m

(***************************************************************************)
(* addToQueue (lines 238-283): the service, its number and the waiting     *)
(* count are read from the render; the two updaters run on the state the   *)
(* updates queued before them left.                                        *)
(***************************************************************************)
AvgServiceTime == 5

\* line 242
NewNumber(service) == service.currentNumber + 1

\* lines 250-260: idMs is the clock read by Date.now() (line 251), ms the one
\* read by new Date() (line 255)
NewTicket(service, serviceType, priority, waitingCount, idMs, ms) ==
    [id |-> TicketId(serviceType, idMs),
     number |-> TicketNumber(service.prefix, NewNumber(service)),
     serviceType |-> serviceType,
     status |-> "waiting",
     timestamp |-> DateOf(ms),
     priority |-> priority,
     estimatedWaitTime |-> waitingCount * AvgServiceTime,
     counterAssigned |-> 0,
     calledAt |-> Undefined,
     completedAt |-> Undefined]

\* the new ticket is put ahead of the queue before the sort
InsertAhead(prev, newTicket) == Sort("waiting", <<newTicket>> \o prev)

\* lines 263-275
InsertTicket(prev, newTicket) == Sort("waiting", Append(prev, newTicket))

\* lines 278-280
SetCurrentNumber(prev, serviceType, newNumber) ==
    Map(prev,
        LAMBDA s :
           IF s.id = serviceType THEN [s EXCEPT !.currentNumber = newNumber] ELSE s)

\* a ticket of the first service is issued when no service has the id
AddToFirstServiceIfUnknown(m, serviceType, priority, idMs, ms) ==
    LET found == Find(m.rendered.services, LAMBDA s : s.id = serviceType)
        service == IF found = <<>> THEN m.rendered.services[1] ELSE found[1]
        newTicket == NewTicket(service, serviceType, priority,
                               getWaitingCount(m.rendered.queue, serviceType),
                               idMs, ms)
        queued == SetQueue(m, LAMBDA prev, k : InsertTicket(prev, newTicket))
    IN  [m |-> [queued EXCEPT !.changed = @ \cup {"queue", "services"}],
         ret |-> newTicket.number]

addToQueue(m, serviceType, priority, idMs, ms) ==
    LET service == Find(m.rendered.services, LAMBDA s : s.id = serviceType)
    IN  IF service = <<>> THEN [m |-> m, ret |-> ""]
        ELSE LET newTicket ==
                     NewTicket(service[1], serviceType, priority,
                               getWaitingCount(m.rendered.queue, serviceType),
                               idMs, ms)
                 queued ==
                     SetQueue(m, LAMBDA prev, k : InsertTicket(prev, newTicket))
             IN  [m |-> [queued EXCEPT
                     !.services =
                         SetCurrentNumber(m.services, serviceType,
                                          NewNumber(service[1])),
                     !.changed = @ \cup {"queue", "services"}],
                  ret |-> newTicket.number]

(***************************************************************************)
(* callNext (lines 286-338): the next ticket and the counter are read from *)
(* the render.  ms is the clock at the call; the updater of the queue      *)
(* reads the clock when React runs it (line 318): at the call when the     *)
(* state is computed at once (eager), at the render otherwise.             *)
(***************************************************************************)
\* the clock the updater reads when it runs k ms after the call
ClockOfRun(ms, k, eager) == IF eager THEN ms ELSE ms + k

\* lines 289-300: waitingTickets[0], as <<ticket>>, or <<>> when undefined
NextTicket(q, serviceType) ==
    LET waitingTickets ==
            Sort("priority",
                 SelectSeq(q, LAMBDA ticket : IsWaitingFor(ticket, serviceType)))
    IN  IF waitingTickets = <<>> THEN <<>> ELSE <<waitingTickets[1]>>

\* lines 308-309: the counter exists and is active
CounterUsable(cs, counterId) ==
    LET counter == Find(cs, LAMBDA c : c.id = counterId)
    IN  counter # <<>> /\ counter[1].status = "active"

\* lines 315-321
MarkServing(prev, nextTicket, counterId, ms) ==
    Map(prev,
        LAMBDA ticket :
           IF ticket.id = nextTicket.id
           THEN [ticket EXCEPT !.status = "serving",
                               !.counterAssigned = counterId,
                               !.calledAt = DateOf(ms)]
           ELSE ticket)

\* lines 324-330
AssignCounter(prev, nextTicket, counterId) ==
    Map(prev,
        LAMBDA counter :
           IF counter.id = counterId
           THEN [counter EXCEPT !.currentlyServing = nextTicket.number]
           ELSE counter)

callNext(m, counterId, serviceType, ms, eager) ==
    LET nextTicket == NextTicket(m.rendered.queue, serviceType)
    IN  IF nextTicket = <<>> THEN [m |-> m, ret |-> <<>>]
        ELSE IF ~CounterUsable(m.rendered.counters, counterId)
        THEN [m |-> m, ret |-> <<>>]
        ELSE [m |-> [SetQueue(m, LAMBDA prev, k :
                                    MarkServing(prev, nextTicket[1], counterId,
                                                ClockOfRun(ms, k, eager)))
                     EXCEPT
                 !.counters = AssignCounter(m.counters, nextTicket[1], counterId),
                 !.changed = @ \cup {"queue", "counters"}],
              ret |-> nextTicket]

(***************************************************************************)
(* completeService (lines 341-385): the ticket is read from the render;    *)
(* the updater of the queue reads the clock when React runs it (line 357). *)
(***************************************************************************)
\* lines 343-352: the ticket to complete, as <<ticket>>, or <<>> (early return)
Completable(q, ticketId) ==
    LET ticket == Find(q, LAMBDA t : t.id = ticketId)
    IN  IF ticket = <<>> THEN <<>>
        ELSE IF ticket[1].status # "serving" THEN <<>>
        ELSE ticket

\* lines 355-359
MarkCompleted(prev, ticketId, ms) ==
    Map(prev,
        LAMBDA t :
           IF t.id = ticketId
           THEN [t EXCEPT !.status = "completed", !.completedAt = DateOf(ms)]
           ELSE t)

\* lines 363-369
FreeCounter(prev, counterId) ==
    Map(prev,
        LAMBDA counter :
           IF counter.id = counterId
           THEN [counter EXCEPT !.currentlyServing = Null]
           ELSE counter)

\* lines 373-378
CountServed(prev, serviceType) ==
    Map(prev,
        LAMBDA service :
           IF service.id = serviceType
           THEN [service EXCEPT !.served = service.served + 1]
           ELSE service)

completeService(m, ticketId, ms, eager) ==
    LET ticket == Completable(m.rendered.queue, ticketId)
        queued == SetQueue(m, LAMBDA prev, k :
                              MarkCompleted(prev, ticketId, ClockOfRun(ms, k, eager)))
    IN  IF ticket = <<>> THEN m
        ELSE IF ticket[1].counterAssigned # 0
        THEN [queued EXCEPT
                !.counters = FreeCounter(m.counters, ticket[1].counterAssigned),
                !.services = CountServed(m.services, ticket[1].serviceType),
                !.changed = @ \cup {"queue", "counters", "services"}]
        ELSE [queued EXCEPT !.changed = @ \cup {"queue"}]

(***************************************************************************)
(* setCounterStatus, setCounterService, updateTicket, clearAllData.        *)
(***************************************************************************)
\* lines 388-394
setCounterStatus(m, counterId, status) ==
    [m EXCEPT
        !.counters = Map(m.counters,
                         LAMBDA counter :
                            IF counter.id = counterId
                            THEN [counter EXCEPT !.status = status]
                            ELSE counter),
        !.changed = @ \cup {"counters"}]

\* lines 397-403
setCounterService(m, counterId, serviceType) ==
    [m EXCEPT
        !.counters = Map(m.counters,
                         LAMBDA counter :
                            IF counter.id = counterId
                            THEN [counter EXCEPT !.serviceType = serviceType]
                            ELSE counter),
        !.changed = @ \cup {"counters"}]

\* { ...ticket, ...updates } (line 444)
Spread(ticket, updates) ==
    LET Field(f) == IF f \in DOMAIN updates THEN updates[f] ELSE ticket[f]
    IN  [id |-> Field("id"),
         number |-> Field("number"),
         serviceType |-> Field("serviceType"),
         status |-> Field("status"),
         timestamp |-> Field("timestamp"),
         priority |-> Field("priority"),
         estimatedWaitTime |-> Field("estimatedWaitTime"),
         counterAssigned |-> Field("counterAssigned"),
         calledAt |-> Field("calledAt"),
         completedAt |-> Field("completedAt")]

\* lines 441-447
updateTicket(m, ticketId, updates) ==
    [SetQueue(m, LAMBDA prev, k :
                    Map(prev,
                        LAMBDA ticket :
                           IF ticket.id = ticketId THEN Spread(ticket, updates)
                           ELSE ticket))
     EXCEPT !.changed = @ \cup {"queue"}]

NoKeys == [queueServices |-> Absent, queueCounters |-> Absent, queueData |-> Absent]

\* lines 457-477
clearAllData(m) ==
    [SetQueue(m, LAMBDA prev, k : <<>>)
     EXCEPT   !.services = InitialServices,
              !.counters = InitialCounters,
              !.store = NoKeys,
              !.changed = @ \cup {"services", "counters", "queue"}]

(***************************************************************************)
(* syncFromStorage (lines 92-113): each updater replaces a collection by   *)
(* what the store holds only when the two differ in their JSON text;       *)
(* an updater that returns prev sets nothing.  The updater of the queue    *)
(* compares what the updaters queued before it give when React runs them.  *)
(***************************************************************************)
\* line 109
ReplaceIfDiffers(prev, syncedQueue) ==
    IF StringifyQueue(prev) # StringifyQueue(syncedQueue) THEN syncedQueue ELSE prev

syncFromStorage(m) ==
    LET syncedServices == loadFromStorage(m.store, "queueServices", InitialServices)
        syncedCounters == loadFromStorage(m.store, "queueCounters", InitialCounters)
        syncedQueue == loadFromStorage(m.store, "queueData", <<>>)
        differs ==
            (IF m.services # syncedServices THEN {"services"} ELSE {})
            \cup (IF m.counters # syncedCounters THEN {"counters"} ELSE {})
            \cup (IF StringifyQueue(m.queue) # StringifyQueue(syncedQueue)
                  THEN {"queue"} ELSE {})
    IN  [SetQueue(m, LAMBDA prev, k : ReplaceIfDiffers(prev, syncedQueue))
         EXCEPT
            !.services = IF "services" \in differs THEN syncedServices ELSE @,
            !.counters = IF "counters" \in differs THEN syncedCounters ELSE @,
            !.changed = @ \cup differs]

(***************************************************************************)
(* Initial state: every tab has mounted on an empty store, its mount       *)
(* effects have written the seed values under the three keys, and the      *)
(* timeouts they set have called syncFromStorage.                          *)
(***************************************************************************)
\* timeouts of line 172 pending in tab 1 before its save effects no longer run
MaxDelayed == 3

\* calls of operations counted in `result`
MaxCounted == 4

NoCall == [calls |-> 0, tab |-> 0, op |-> "none", tickets |-> <<>>, text |-> ""]

SeedCollections ==
    [services |-> InitialServices, counters |-> InitialCounters, queue |-> <<>>]

Init ==
    /\ services = [t \in Tabs |-> InitialServices]
    /\ counters = [t \in Tabs |-> InitialCounters]
    /\ queue = [t \in Tabs |-> <<>>]
    /\ later = [t \in Tabs |-> Settled(<<>>, MaxTime - 1)]
    /\ rendered = [t \in Tabs |-> SeedCollections]
    /\ changed = [t \in Tabs |-> {}]
    /\ pending = [t \in Tabs |-> <<>>]
    /\ localStorage = [queueServices |-> Item(InitialServices),
                       queueCounters |-> Item(InitialCounters),
                       queueData |-> Item(<<>>)]
    /\ now = 1
    /\ result = NoCall
    /\ returned = <<>>
    /\ listeners = Mounted
    /\ events = 0

\* tab t's state, its timers and the store become those of m, while d ms
\* pass for the updaters queued in the other tabs
CommitAfter(t, m, d) ==
    /\ services' = [services EXCEPT ![t] = m.services]
    /\ counters' = [counters EXCEPT ![t] = m.counters]
    /\ queue' = [u \in Tabs |->
                    IF u = t THEN m.queue ELSE Advance(TabState(u), d).queue]
    /\ later' = [u \in Tabs |->
                    IF u = t THEN m.later ELSE Advance(TabState(u), d).later]
    /\ rendered' = [rendered EXCEPT ![t] = m.rendered]
    /\ changed' = [changed EXCEPT ![t] = m.changed]
    /\ pending' = [pending EXCEPT ![t] = m.pending]
    /\ localStorage' = m.store
    /\ listeners' = IF t = 1 THEN m.listeners ELSE listeners

Commit(t, m) == CommitAfter(t, m, 0) /\ UNCHANGED events

\* tab t has rendered its state and run the effects of the render
Idle(t) == pending[t] = <<>> /\ changed[t] = {}

\* the ids a caller may pass: those of the tickets the tab shows, and one of
\* no ticket
TicketIds(t) ==
    {rendered[t].queue[i].id : i \in 1..Len(rendered[t].queue)} \cup {"general-0"}

\* the calls made so far, one more
Counted == IF result.calls < MaxCounted THEN result.calls + 1 ELSE MaxCounted

\* the clock values new Date() may read after Date.now() has read `now`
ClockAfter == {ms \in {now, now + 1} : ms <= MaxTime}

\* React may compute the state of an update at the call when no update is
\* queued in the tab, and does not when one is
EagerState(t) == IF changed[t] = {} THEN BOOLEAN ELSE {FALSE}

(***************************************************************************)
(* Steps of a tab.  A call of an operation queues its updates; the render  *)
(* comes later, and the effects of the render after it.  Other calls and   *)
(* callbacks of the tab, and steps of the other tab, come in between.      *)
(***************************************************************************)
Tick ==
    /\ now < MaxTime
    /\ now' = now + 1
    /\ queue' = [t \in Tabs |-> Advance(TabState(t), 1).queue]
    /\ later' = [t \in Tabs |-> Advance(TabState(t), 1).later]
    /\ UNCHANGED <<services, counters, rendered, changed, pending,
                 localStorage, result, returned, listeners, events>>

AddToQueue(t, serviceType, priority, ms) ==
    /\ listeners.mounted
    /\ LET r == addToQueue(Advance(TabState(t), ms - now), serviceType, priority,
                            now, ms)
       IN  /\ CommitAfter(t, r.m, ms - now)
           /\ UNCHANGED events
           /\ result' = [calls |-> Counted, tab |-> t, op |-> "addToQueue", tickets |-> <<>>, text |-> r.ret]
    /\ now' = ms
    /\ UNCHANGED returned

CallNext(t, counterId, serviceType) ==
    /\ listeners.mounted
    /\ \E eager \in EagerState(t) :
          LET r == callNext(TabState(t), counterId, serviceType, now, eager)
          IN  /\ Commit(t, r.m)
              /\ result' = [calls |-> Counted, tab |-> t, op |-> "callNext",
                            tickets |-> r.ret, text |-> ""]
              /\ returned' = returned \o r.ret
    /\ UNCHANGED now

CompleteService(t, ticketId) ==
    /\ listeners.mounted
    /\ \E eager \in EagerState(t) :
          Commit(t, completeService(TabState(t), ticketId, now, eager))
    /\ result' = [calls |-> Counted, tab |-> t, op |-> "completeService", tickets |-> <<>>, text |-> ""]
    /\ UNCHANGED <<now, returned>>

\* the tab renders the updates queued since its last render; the effects of
\* the last render have run by then
Render(t) ==
    /\ listeners.mounted
    /\ changed[t] # {}
    /\ pending[t] = <<>>
    /\ Commit(t, render(TabState(t)))
    /\ UNCHANGED <<now, result, returned>>

\* the save effects among the pending effects of tab t
Saves(t) ==
    SelectSeq(pending[t],
              LAMBDA e : e \in {"saveServices", "saveCounters", "saveQueue"})

\* the timeouts the save effects of tab 1 set bring no more than n to be pending
\* (the timeouts of tab 2 are not followed)
Room(t, n) == t = 1 => Len(listeners.delayed) + Len(Saves(1)) <= n

\* the effects of tab t's last render run (lines 198-235)
Effects(t) ==
    /\ pending[t] # <<>>
    /\ Commit(t, RunPending(TabState(t)))
    /\ UNCHANGED <<now, result, returned>>

\* a listener of tab t calls syncFromStorage (storage event, visibilitychange,
\* focus: lines 140-165)
SyncFromStorage(t) ==
    /\ listeners.mounted
    /\ syncFromStorage(TabState(t)) # TabState(t)
    /\ Commit(t, syncFromStorage(TabState(t)))
    /\ UNCHANGED <<now, result, returned>>

\* 100 ms pass: every timeout of tab 1 is nearer to its time
ClockTick ==
    /\ \/ \E i \in 1..Len(listeners.delayed) : listeners.delayed[i] > 0
       \/ listeners.syncTimeout > 0
    /\ listeners' =
          [listeners EXCEPT
              !.delayed = [i \in 1..Len(@) |-> IF @[i] > 0 THEN @[i] - 1 ELSE 0],
              !.syncTimeout = IF @ > 0 THEN @ - 1 ELSE @]
    /\ UNCHANGED <<services, counters, queue, later, rendered, changed, pending,
                 localStorage, now, result, returned, events>>

\* syncFromStorage called by a timeout of tab 1: the state updates of an
\* unmounted provider are dropped
TimeoutSync ==
    IF listeners.mounted
    THEN LET m == syncFromStorage(TabState(1))
         IN  /\ services' = [services EXCEPT ![1] = m.services]
             /\ counters' = [counters EXCEPT ![1] = m.counters]
             /\ queue' = [queue EXCEPT ![1] = m.queue]
             /\ later' = [later EXCEPT ![1] = m.later]
             /\ changed' = [changed EXCEPT ![1] = m.changed]
    ELSE UNCHANGED <<services, counters, queue, later, changed>>

\* the first timeout of the signal is due (line 172)
DelayedSync ==
    /\ listeners.delayed # <<>>
    /\ Head(listeners.delayed) = 0
    /\ listeners' = [listeners EXCEPT !.delayed = Tail(@)]
    /\ TimeoutSync
    /\ UNCHANGED <<rendered, pending, localStorage, now, result, returned, events>>

(***************************************************************************)
(* One tab, the three core operations (Spec): calls, renders, effects and  *)
(* timeouts in any order.  The inputs are cut down to one service, one     *)
(* priority and the two active counters, the calls fall into one           *)
(* millisecond, and no listener event (lines 140-165) arrives: those are   *)
(* inputs of SpecSeq, SpecScenario, SpecOps and the specifications of two  *)
(* tabs.                                                                   *)
(***************************************************************************)
\* calls of operations before Spec takes no further call
MaxOps == 4

Next ==
    \/ /\ result.calls < MaxOps
       /\ Len(queue[1]) < MaxTickets
       /\ AddToQueue(1, "general", "normal", now)
    \/ \E counterId \in {1, 2} :
          result.calls < MaxOps /\ CallNext(1, counterId, "general")
    \/ \E ticketId \in TicketIds(1) :
          result.calls < MaxOps /\ CompleteService(1, ticketId)
    \/ Render(1)
    \/ Room(1, MaxDelayed) /\ Effects(1)
    \/ ClockTick
    \/ DelayedSync

Spec == Init /\ [][Next]_vars

(***************************************************************************)
(* One tab whose calls come one after the other (SpecSeq): a call comes    *)
(* when the tab has rendered the updates of the call before and run the    *)
(* effects of the render.  The timeouts of line 172 pass and come due at   *)
(* any moment, also between a call and its render and between a render and *)
(* its effects, and so do the events of the listeners (lines 140-165).     *)
(* The inputs are cut down to the service general and a service that does  *)
(* not exist, one priority and the two active counters.                    *)
(***************************************************************************)
\* tickets and calls of operations before SpecSeq and SpecOrder no longer add
\* and call
MaxSeqTickets == 3
MaxSeqOps == 4

NextSeq ==
    \/ Tick
    \/ \E serviceType \in {"general", "unknown"}, ms \in ClockAfter :
          /\ Idle(1)
          /\ result.calls < MaxSeqOps
          /\ Len(queue[1]) < MaxSeqTickets
          /\ AddToQueue(1, serviceType, "normal", ms)
    \/ \E counterId \in {1, 2} :
          Idle(1) /\ result.calls < MaxSeqOps /\ CallNext(1, counterId, "general")
    \/ \E ticketId \in TicketIds(1) :
          Idle(1) /\ result.calls < MaxSeqOps /\ CompleteService(1, ticketId)
    \/ Render(1)
    \/ Room(1, MaxDelayed) /\ Effects(1)
    \/ SyncFromStorage(1)
    \/ ClockTick
    \/ DelayedSync

SpecSeq == Init /\ [][NextSeq]_vars

(***************************************************************************)
(* One tab that issues tickets of two services and two priorities, its     *)
(* calls one after the other as in SpecSeq (SpecOrder).  The timeouts of   *)
(* line 172 pass and come due at any moment.  The inputs are cut down to   *)
(* normal tickets of general, normal and urgent tickets of facility, and   *)
(* callNext for general at counter 1; the clock advances between the two   *)
(* readings of addToQueue (lines 251 and 255) only.                        *)
(***************************************************************************)
OrderInputs ==
    {<<"general", "normal">>, <<"facility", "normal">>, <<"facility", "urgent">>}

NextOrder ==
    \/ \E input \in OrderInputs, ms \in ClockAfter :
          /\ Idle(1)
          /\ result.calls < MaxSeqOps
          /\ Len(queue[1]) < MaxSeqTickets
          /\ AddToQueue(1, input[1], input[2], ms)
    \/ Idle(1) /\ result.calls < MaxSeqOps /\ CallNext(1, 1, "general")
    \/ Render(1)
    \/ Room(1, MaxDelayed) /\ Effects(1)
    \/ ClockTick
    \/ DelayedSync

SpecOrder == Init /\ [][NextOrder]_vars

(***************************************************************************)
(* One tab, the scenario of two tickets (SpecScenario): on the seed state  *)
(* addToQueue("general", "Alice", "renew ID", "normal") is called, then    *)
(* addToQueue("general", "Bob", "complaint", "vip"), from the same render  *)
(* or a later one, with renders, effects, listener events and timeouts at  *)
(* any moment.                                                             *)
(***************************************************************************)
NextScenario ==
    \/ Tick
    \/ \E ms \in ClockAfter :
          result.calls = 0 /\ AddToQueue(1, "general", "normal", ms)
    \/ \E ms \in ClockAfter :
          result.calls = 1 /\ AddToQueue(1, "general", "vip", ms)
    \/ Render(1)
    \/ Room(1, MaxDelayed) /\ Effects(1)
    \/ SyncFromStorage(1)
    \/ ClockTick
    \/ DelayedSync

SpecScenario == Init /\ [][NextScenario]_vars

(***************************************************************************)
(* One tab, all mutating operations (SpecOps).  The inputs are cut down to *)
(* one service, one counter and one priority.                              *)
(***************************************************************************)
StatusInputs == {"waiting", "serving", "completed"}

SetCounterStatus(t, counterId, status) ==
    /\ listeners.mounted
    /\ Commit(t, setCounterStatus(TabState(t), counterId, status))
    /\ result' = [calls |-> Counted, tab |-> t, op |-> "setCounterStatus",
                  tickets |-> <<>>, text |-> ""]
    /\ UNCHANGED <<now, returned>>

SetCounterService(t, counterId, serviceType) ==
    /\ listeners.mounted
    /\ Commit(t, setCounterService(TabState(t), counterId, serviceType))
    /\ result' = [calls |-> Counted, tab |-> t, op |-> "setCounterService",
                  tickets |-> <<>>, text |-> ""]
    /\ UNCHANGED <<now, returned>>

UpdateTicket(t, ticketId, updates) ==
    /\ listeners.mounted
    /\ Commit(t, updateTicket(TabState(t), ticketId, updates))
    /\ result' = [calls |-> Counted, tab |-> t, op |-> "updateTicket",
                  tickets |-> <<>>, text |-> ""]
    /\ UNCHANGED <<now, returned>>

ClearAllData(t) ==
    /\ listeners.mounted
    /\ Commit(t, clearAllData(TabState(t)))
    /\ result' = [calls |-> Counted, tab |-> t, op |-> "clearAllData",
                  tickets |-> <<>>, text |-> ""]
    /\ UNCHANGED <<now, returned>>

\* calls of operations before SpecOps takes no further call
MaxAllOps == 3

NextOps ==
    \/ result.calls < MaxAllOps /\ AddToQueue(1, "general", "normal", now)
    \/ result.calls < MaxAllOps /\ CallNext(1, 1, "general")
    \/ \E ticketId \in TicketIds(1) :
          result.calls < MaxAllOps /\ CompleteService(1, ticketId)
    \/ \E status \in {"active", "inactive"} :
          result.calls < MaxAllOps /\ SetCounterStatus(1, 1, status)
    \/ \E serviceType \in {"general", Null} :
          result.calls < MaxAllOps /\ SetCounterService(1, 1, serviceType)
    \/ \E ticketId \in TicketIds(1), status \in StatusInputs :
          result.calls < MaxAllOps /\ UpdateTicket(1, ticketId, [status |-> status])
    \/ result.calls < MaxAllOps /\ ClearAllData(1)
    \/ Render(1)
    \/ Room(1, MaxDelayed) /\ Effects(1)
    \/ SyncFromStorage(1)
    \/ ClockTick
    \/ DelayedSync

SpecOps == Init /\ [][NextOps]_vars

(***************************************************************************)
(* Two tabs on one store (SpecTabs).  Tabs are separate event loops and    *)
(* localStorage has no lock: between the steps of a tab the other tab may  *)
(* read or write the store.  A tab takes a call when the effects of its    *)
(* last render have run, several calls from one render included, and a     *)
(* reconciliation (storage event, focus, visibilitychange, timeouts: lines *)
(* 139-187) or timeout at any moment, also between a render and its        *)
(* effects; the calls that come between a render and its effects are those *)
(* of Spec.  The inputs are cut down to one service, one counter and one   *)
(* priority, and only tab 1 issues and completes.                          *)
(***************************************************************************)
\* calls of operations before SpecTabs takes no further call
MaxTabOps == 2

\* the effects of tab t's last render have run
Flushed(t) == pending[t] = <<>>

\* tab 1 issues and completes; both tabs call
TabOperation ==
    \/ /\ Flushed(1)
       /\ result.calls < MaxTabOps
       /\ Len(queue[1]) < MaxTickets
       /\ AddToQueue(1, "general", "normal", now)
    \/ \E t \in Tabs :
          Flushed(t) /\ result.calls < MaxTabOps /\ CallNext(t, 1, "general")
    \/ \E ticketId \in TicketIds(1) :
          Flushed(1) /\ result.calls < MaxTabOps /\ CompleteService(1, ticketId)

\* the listeners effect of tab t's first render has run: the tab has listeners
Registered(t) == "listeners" \notin Range(pending[t])

\* listener events before SpecTabs, SpecIssue and SpecOpen take no further one
MaxEvents == 2

\* a listener of tab t calls syncFromStorage, at any moment (storage event,
\* visibilitychange, focus: lines 140-165; for tab 2 its timeouts as well)
ListenerEvent(t) ==
    /\ listeners.mounted
    /\ Registered(t)
    /\ syncFromStorage(TabState(t)) # TabState(t)
    /\ CommitAfter(t, syncFromStorage(TabState(t)), 0)
    /\ events' = events + 1
    /\ UNCHANGED <<now, result, returned>>

\* the steps of a tab that follow its calls, with no more than n listener
\* events
TabStepWithin(n) ==
    \/ \E t \in Tabs : Render(t)
    \/ \E t \in Tabs : Room(t, MaxDelayed) /\ Effects(t)
    \/ \E t \in Tabs : events < n /\ ListenerEvent(t)
    \/ ClockTick
    \/ DelayedSync

TabStep == TabStepWithin(MaxEvents)

NextTabs == TabOperation \/ TabStep

SpecTabs == Init /\ [][NextTabs]_vars

(***************************************************************************)
(* Two tabs that both call the one ticket tab 1 issues (SpecCalls).        *)
(***************************************************************************)
\* calls of operations and listener events before SpecCalls takes no further
\* one
MaxCallOps == 3
MaxCallEvents == 1

NextCalls ==
    \/ /\ Flushed(1)
       /\ result.calls < MaxCallOps
       /\ queue[1] = <<>>
       /\ AddToQueue(1, "general", "normal", now)
    \/ \E t \in Tabs :
          Flushed(t) /\ result.calls < MaxCallOps /\ CallNext(t, 1, "general")
    \/ TabStepWithin(MaxCallEvents)

SpecCalls == Init /\ [][NextCalls]_vars

(***************************************************************************)
(* Two tabs that both issue tickets (SpecIssue).                           *)
(***************************************************************************)
\* tickets issued before SpecIssue no longer issues
MaxIssueOps == 2

IssueTicket(t) ==
    /\ Flushed(t)
    /\ result.calls < MaxIssueOps
    /\ AddToQueue(t, "general", "normal", now)

NextIssue ==
    \/ \E t \in Tabs : IssueTicket(t)
    \/ TabStep

SpecIssue == Init /\ [][NextIssue]_vars

(***************************************************************************)
(* A tab that is opened while another works (SpecOpen): the useState       *)
(* initialisers (lines 116-136) load the three keys during the first       *)
(* render, and every effect runs once after it (lines 139-235): the        *)
(* listeners effect, before which the tab has no listener, and the save    *)
(* effects.  The other tab's steps fall between the two.                   *)
(***************************************************************************)
\* the tab after its first render over the store
mount(m) ==
    LET loaded ==
            [services |-> loadFromStorage(m.store, "queueServices", InitialServices),
             counters |-> loadFromStorage(m.store, "queueCounters", InitialCounters),
             queue |-> loadFromStorage(m.store, "queueData", <<>>)]
    IN  [m EXCEPT !.services = loaded.services,
                  !.counters = loaded.counters,
                  !.queue = loaded.queue,
                  !.later = Settled(loaded.queue, Len(m.later)),
                  !.rendered = loaded,
                  !.changed = {},
                  !.pending = MountEffects]

OpenTab(t) ==
    /\ Commit(t, mount(TabState(t)))
    /\ result' = [calls |-> result.calls, tab |-> t, op |-> "open",
                  tickets |-> <<>>, text |-> ""]
    /\ UNCHANGED <<now, returned>>

\* tickets issued before SpecOpen no longer issues
MaxOpenOps == 1

\* tab 1 issues tickets and reconciles; tab 2 is opened at any moment
NextOpen ==
    \/ result.calls < MaxOpenOps /\ IssueTicket(1)
    \/ OpenTab(2)
    \/ TabStep

SpecOpen == Init /\ [][NextOpen]_vars

(***************************************************************************)
(* The reconciliation listeners of tab 1 (SpecListeners, lines 139-196).   *)
(* The triggers (storage event, visibilitychange, focus, the 30 s          *)
(* interval) are inputs; the queueDataChanged signal comes from the tab's  *)
(* own save effects.  After the cleanup the provider takes no call and no  *)
(* state update, and the timeouts that were pending still come due.        *)
(***************************************************************************)
StorageKeys == {"queueServices", "queueCounters", "queueData", "theme"}

\* lines 140-146
HandleStorageChange(key) ==
    /\ listeners.mounted
    /\ key \in {"queueServices", "queueCounters", "queueData"}
    /\ Commit(1, syncFromStorage(TabState(1)))
    /\ UNCHANGED <<now, result, returned>>

\* lines 152-157
HandleVisibilityChange(hidden) ==
    /\ listeners.mounted
    /\ ~hidden
    /\ Commit(1, syncFromStorage(TabState(1)))
    /\ UNCHANGED <<now, result, returned>>

\* lines 162-165
HandleFocus ==
    /\ listeners.mounted
    /\ Commit(1, syncFromStorage(TabState(1)))
    /\ UNCHANGED <<now, result, returned>>

\* lines 178-187: the interval's callback; a pending timeout is replaced
DebouncedSync ==
    /\ listeners.mounted
    /\ listeners' = [listeners EXCEPT !.syncTimeout = DebounceUnits]
    /\ UNCHANGED <<services, counters, queue, later, rendered, changed, pending,
                 localStorage, now, result, returned, events>>

\* the debounce timeout is due (line 181)
SyncTimeout ==
    /\ listeners.syncTimeout = 0
    /\ listeners' = [listeners EXCEPT !.syncTimeout = -1]
    /\ TimeoutSync
    /\ UNCHANGED <<rendered, pending, localStorage, now, result, returned, events>>

\* lines 189-195: four listeners removed, the interval cleared.  The
\* provider is unmounted: React runs the effects of the last render that are
\* still pending before it runs the cleanup
cleanup(m) == [RunPending(m) EXCEPT !.listeners.mounted = FALSE]

Cleanup ==
    /\ listeners.mounted
    /\ Commit(1, cleanup(TabState(1)))
    /\ UNCHANGED <<now, result, returned>>

\* tickets issued before SpecListeners no longer issues
MaxListenerOps == 2

NextListeners ==
    \/ \E ms \in ClockAfter :
          result.calls < MaxListenerOps /\ AddToQueue(1, "general", "normal", ms)
    \/ Render(1)
    \/ Room(1, MaxDelayed) /\ Effects(1)
    \/ \E key \in StorageKeys : HandleStorageChange(key)
    \/ \E hidden \in BOOLEAN : HandleVisibilityChange(hidden)
    \/ HandleFocus
    \/ DebouncedSync
    \/ DelayedSync
    \/ SyncTimeout
    \/ Cleanup
    \/ ClockTick

SpecListeners == Init /\ [][NextListeners]_vars

(***************************************************************************)
(* Loading from a store whose keys hold other texts than the program's     *)
(* own (SpecLoad): another program version, a hand edit or a cut-off write *)
(* replaces the text under a key, and loadFromStorage is applied to it.    *)
(***************************************************************************)
QueueKeys == {"queueServices", "queueCounters", "queueData"}

\* the default the callers pass for a key (lines 94-104, 117-135)
DefaultOf(key) ==
    CASE key = "queueServices" -> InitialServices
      [] key = "queueCounters" -> InitialCounters
      [] key = "queueData" -> <<>>

CorruptKey(key, form) ==
    /\ localStorage' = [localStorage EXCEPT ![key] = Junk(form)]
    /\ UNCHANGED <<services, counters, queue, later, rendered, changed, pending, now,
                 result, returned, listeners, events>>

\* loadFromStorage(key, default) is called; it writes nothing
LoadKey(key) ==
    /\ result' = [calls |-> result.calls, tab |-> 1, op |-> "loadFromStorage",
                  tickets |-> <<>>, text |-> key]
    /\ UNCHANGED <<services, counters, queue, later, rendered, changed, pending,
                 localStorage, now, returned, listeners, events>>

NextLoad ==
    \/ \E key \in QueueKeys, form \in JunkForms : CorruptKey(key, form)
    \/ \E key \in QueueKeys : LoadKey(key)

SpecLoad == Init /\ [][NextLoad]_vars

(***************************************************************************)
(* Properties of one tab whose calls come one after the other (SpecSeq,   *)
(* SpecOrder).                                                             *)
(***************************************************************************)
Indices(q) == 1..Len(q)

\* a is not after b in the calling order: priority first, then creation time
NotAfter(a, b) ==
    \/ PriorityOrder(a.priority) > PriorityOrder(b.priority)
    \/ /\ PriorityOrder(a.priority) = PriorityOrder(b.priority)
       /\ a.timestamp.ms <= b.timestamp.ms

\* C1: for every service, the waiting tickets of that service appear in the
\* stored queue in priority-descending order, ties in ascending creation time.
C1_WaitingSortedInQueue ==
    \A serviceType \in ServiceIds :
        \A i, j \in Indices(queue[1]) :
            (/\ i < j
             /\ IsWaitingFor(queue[1][i], serviceType)
             /\ IsWaitingFor(queue[1][j], serviceType))
            => NotAfter(queue[1][i], queue[1][j])

\* C2: in one tab whose calls come one after the other, each on a tab that
\* has rendered and saved the call before, no ticket (a service's ticket
\* number) is returned by two different successful callNext calls.
C2_NeverReturnedTwice ==
    \A i, j \in Indices(returned) :
        i # j =>
            ~(/\ returned[i].number = returned[j].number
              /\ returned[i].serviceType = returned[j].serviceType)

\* C3: for every counter, at most one ticket is serving with counterAssigned
\* equal to that counter.
C3_OneServingPerCounter ==
    \A c \in Indices(counters[1]) :
        Cardinality({i \in Indices(queue[1]) :
                        /\ queue[1][i].status = "serving"
                        /\ queue[1][i].counterAssigned = counters[1][c].id}) <= 1

\* a call of addToQueue that issued a ticket
Issued(call) == call.op = "addToQueue" /\ call.text # ""

\* C4: in one tab whose calls come one after the other, each on a tab that
\* has rendered the call before and run the effects of the render, the n-th
\* ticket issued for a service gets the number prefix + n padded to 3 digits
\* and currentNumber becomes n: when a call of addToQueue that issued the
\* number prefix + n is followed by a call of addToQueue for the service, that
\* call issues prefix + (n + 1) and leaves currentNumber n + 1, so that the
\* numbers increase and no number is issued twice.
C4_NextTicketNextNumber ==
    [][(Issued(result) /\ Issued(result') /\ result'.calls = result.calls + 1)
          => \E n \in 1..MaxSeqOps :
                /\ result.text = TicketNumber(services[1][1].prefix, n)
                /\ result'.text = TicketNumber(services[1][1].prefix, n + 1)
                /\ services'[1][1].currentNumber = n + 1
      ]_vars

(***************************************************************************)
(* Properties of two tabs on one store (SpecTabs).                         *)
(***************************************************************************)
\* C5: whenever a tab has settled (it has rendered its updates and the
\* effects of the render have run), every service's waiting field equals
\* getWaitingCount of the tab's queue for that service
C5_WaitingMatchesQueue ==
    \A t \in Tabs :
        Idle(t) =>
            \A s \in 1..Len(services[t]) :
                services[t][s].waiting = getWaitingCount(queue[t], services[t][s].id)

\* tab 2, which issues no ticket, has settled on a queue it read from the
\* store, with one ticket waiting and counted
C5_Witness ==
    /\ Idle(2)
    /\ Len(queue[2]) = 1
    /\ queue[2][1].status = "waiting"
    /\ services[2][1].waiting = 1

\* the ticket of the last call, a successful callNext, is serving at a counter
TicketApplied(q) ==
    \E i \in 1..Len(q) :
        /\ q[i].id = result.tickets[1].id
        /\ q[i].status = "serving"
        /\ q[i].counterAssigned # 0

\* a counter shows the number of the ticket of the last call
CounterApplied(cs) ==
    \E i \in 1..Len(cs) : cs[i].currentlyServing = result.tickets[1].number

\* C8: after a successful callNext, no tab's memory and no read of the store
\* shows exactly one of its two mutations (ticket serving at the counter,
\* counter showing the ticket's number)
C8_MutationsTogether ==
    (result.op = "callNext" /\ result.tickets # <<>>) =>
        /\ \A t \in Tabs : TicketApplied(queue[t]) <=> CounterApplied(counters[t])
        /\ TicketApplied(loadFromStorage(localStorage, "queueData", <<>>))
              <=> CounterApplied(loadFromStorage(localStorage, "queueCounters",
                                                 InitialCounters))

(***************************************************************************)
(* Properties of one tab under all six mutating operations (SpecOps).      *)
(***************************************************************************)
\* C6: a ticket's status only ever changes from waiting to serving or from
\* serving to completed.
C6_StatusOnlyForward ==
    [][\A i \in Indices(queue[1]), j \in Indices(queue'[1]) :
          (/\ queue[1][i].number = queue'[1][j].number
           /\ queue[1][i].serviceType = queue'[1][j].serviceType
           /\ queue[1][i].status # queue'[1][j].status)
          => \/ queue[1][i].status = "waiting" /\ queue'[1][j].status = "serving"
             \/ queue[1][i].status = "serving" /\ queue'[1][j].status = "completed"
      ]_vars

(***************************************************************************)
(* Properties of the calls of one tab, made at any moment (Spec).          *)
(***************************************************************************)
\* the tickets of q waiting for a service, as a set of indices
WaitingAt(q, serviceType) == {i \in Indices(q) : IsWaitingFor(q[i], serviceType)}

\* C7: in every reachable state and for every counter and service, a
\* successful callNext(counterId, serviceType) returns a ticket that waits for
\* that service in the queue and that no waiting ticket of the service
\* precedes (higher priority, or the same priority and an earlier creation
\* time), whatever the stored order; the counter's currentlyServing becomes
\* the ticket's number, the ticket becomes serving on that counter and leaves
\* the waiting tickets.
C7_CallNextReturnsBest ==
    \A counterId \in CounterInputs, serviceType \in ServiceIds :
        LET r == callNext(TabState(1), counterId, serviceType, now, FALSE)
            t == r.ret[1]
        IN  r.ret # <<>>
            => /\ \E i \in WaitingAt(queue[1], serviceType) : queue[1][i] = t
               /\ \A i \in WaitingAt(queue[1], serviceType) :
                     NotAfter(t, queue[1][i])
               /\ \E c \in Indices(r.m.counters) :
                     /\ r.m.counters[c].id = counterId
                     /\ r.m.counters[c].currentlyServing = t.number
               /\ \A i \in Indices(r.m.queue) :
                     r.m.queue[i].number = t.number
                     => /\ r.m.queue[i].status = "serving"
                        /\ r.m.queue[i].counterAssigned = counterId
               /\ getWaitingCount(r.m.queue, serviceType)
                    = getWaitingCount(queue[1], serviceType)
                      - Cardinality({i \in WaitingAt(queue[1], serviceType) :
                                        queue[1][i].id = t.id})

\* the counter with this id exists and its status is active
ActiveCounter(cs, counterId) ==
    \E c \in Indices(cs) : cs[c].id = counterId /\ cs[c].status = "active"

\* C9: in every reachable state, callNext returns null and leaves queue,
\* counters, services and the store unchanged when no ticket of the queue
\* waits for the requested service, or the counter does not exist or is not
\* active; a call that changes anything is a call on a counter that is active.
C9_CallNextRejects ==
    \A counterId \in CounterInputs, serviceType \in ServiceInputs :
        LET r == callNext(TabState(1), counterId, serviceType, now, FALSE)
        IN  /\ (\/ WaitingAt(queue[1], serviceType) = {}
                \/ ~ActiveCounter(counters[1], counterId))
               => /\ r.ret = <<>>
                  /\ r.m = TabState(1)
            /\ r.m # TabState(1) => ActiveCounter(counters[1], counterId)

\* C10: in every reachable state, completeService(ticketId) leaves queue,
\* counters, services and the store unchanged when no ticket of the queue has
\* that id, or the tickets with that id are waiting or completed.
C10_CompleteServiceRejects ==
    \A ticketId \in TicketIds(1) :
        (\A i \in Indices(queue[1]) :
            queue[1][i].id = ticketId
            => queue[1][i].status \in {"waiting", "completed"})
        => completeService(TabState(1), ticketId, now, FALSE) = TabState(1)

(***************************************************************************)
(* Properties of completeService (Spec).                                   *)
(***************************************************************************)
\* the place of the first ticket of q with this id
FirstIndex(q, ticketId) ==
    CHOOSE i \in 1..Len(q) :
        q[i].id = ticketId /\ \A j \in 1..(i - 1) : q[j].id # ticketId

\* C11: completeService on a ticket of the queue that is serving at counter c
\* completes that ticket, clears counter c's currentlyServing and adds one to
\* the served count of the ticket's service, and changes no other ticket,
\* counter or service field
C11_CompleteServiceChangesOnlyItsTicket ==
    \A ticketId \in TicketIds(1) :
        LET found == Completable(queue[1], ticketId)
        IN  (found # <<>> /\ found[1].counterAssigned # 0) =>
            LET m == completeService(TabState(1), ticketId, now, FALSE)
                at == FirstIndex(queue[1], ticketId)
            IN  /\ Len(m.queue) = Len(queue[1])
                /\ m.queue[at] = [queue[1][at] EXCEPT !.status = "completed",
                                                      !.completedAt = DateOf(now)]
                /\ \A i \in 1..Len(queue[1]) : i # at => m.queue[i] = queue[1][i]
                /\ \A i \in 1..Len(counters[1]) :
                      m.counters[i] =
                          IF counters[1][i].id = found[1].counterAssigned
                          THEN [counters[1][i] EXCEPT !.currentlyServing = Null]
                          ELSE counters[1][i]
                /\ \A i \in 1..Len(services[1]) :
                      m.services[i] =
                          IF services[1][i].id = found[1].serviceType
                          THEN [services[1][i] EXCEPT !.served = @ + 1]
                          ELSE services[1][i]

(***************************************************************************)
(* Two tabs on one store with the scheduling the code has (SpecTabsFair):  *)
(* a tab renders its updates and runs the effects of the render, a tab     *)
(* whose state differs from the store comes to reconcile (the storage      *)
(* event of another tab's write and the 30 s interval, lines 139-187), and *)
(* the timeouts of the data-changed signal come due and fire.              *)
(***************************************************************************)
FairTabs ==
    /\ \A t \in Tabs :
          /\ WF_vars(Render(t))
          /\ WF_vars(Room(t, MaxDelayed) /\ Effects(t))
          /\ WF_vars(SyncFromStorage(t))
    /\ WF_vars(ClockTick)
    /\ WF_vars(DelayedSync)

\* tickets issued before SpecTabsFair no longer issues
MaxFairOps == 1

\* the steps of the tabs, with no bound on the listener events
FairStep ==
    \/ \E t \in Tabs : Render(t)
    \/ \E t \in Tabs : Room(t, MaxDelayed) /\ Effects(t)
    \/ \E t \in Tabs : SyncFromStorage(t)
    \/ ClockTick
    \/ DelayedSync

\* tab 1 issues a ticket; the steps of both tabs follow
NextFair ==
    \/ /\ Flushed(1)
       /\ result.calls < MaxFairOps
       /\ AddToQueue(1, "general", "normal", now)
    \/ FairStep

SpecTabsFair == Init /\ [][NextFair]_vars /\ FairTabs

\* tab t's collections are those the store holds, compared as lines 106-109 do
EqualsStore(t) ==
    /\ services[t] = loadFromStorage(localStorage, "queueServices", InitialServices)
    /\ counters[t] = loadFromStorage(localStorage, "queueCounters", InitialCounters)
    /\ StringifyQueue(queue[t])
         = StringifyQueue(loadFromStorage(localStorage, "queueData", <<>>))

Converged == \A t \in Tabs : EqualsStore(t)

\* every tab comes to run the effects of its renders again and again, and the
\* timeouts of tab 1 come to fire
Delivered ==
    /\ \A t \in Tabs : []<>(pending[t] = <<>>)
    /\ []<>(listeners.delayed = <<>>)

\* C12: if from some point on no tab performs an operation, and effects and
\* timeouts are delivered, then from some point on every tab's services,
\* counters and queue equal what the store holds
C12_TabsConverge ==
    ((<>[][~TabOperation]_vars) /\ Delivered) => <>[]Converged

\* a reconciliation of tab t would replace nothing and schedule no effect
ReplacesNothing(t) == syncFromStorage(TabState(t)) = TabState(t)

\* C13: if from some point on no tab performs an operation, and effects and
\* timeouts are delivered, then from some point on no tab writes the store or
\* replaces its state; and a reconciliation of a settled tab whose
\* collections equal the store's replaces nothing and schedules no save
C13_UpdatesComeToRest ==
    /\ ((<>[][~TabOperation]_vars) /\ Delivered)
         => <>[][UNCHANGED <<services, counters, queue, pending, localStorage>>]_vars
    /\ [](\A t \in Tabs : (Idle(t) /\ EqualsStore(t)) => ReplacesNothing(t))

(***************************************************************************)
(* Properties of clearAllData (SpecOps).                                   *)
(***************************************************************************)
\* C14: once clearAllData has run, the tab has rendered and the save effects
\* have run, none of the keys queueServices, queueCounters and queueData is
\* present in the store
C14_StoreEmptyAfterClear ==
    (result.op = "clearAllData" /\ Idle(1)) =>
        /\ ~localStorage.queueServices.present
        /\ ~localStorage.queueCounters.present
        /\ ~localStorage.queueData.present

\* the collections of m are the seeds
IsSeed(m) ==
    /\ m.queue = <<>>
    /\ m.services = InitialServices
    /\ m.counters = InitialCounters
    /\ \A i \in 1..Len(m.services) :
          /\ m.services[i].currentNumber = 0
          /\ m.services[i].served = 0
          /\ m.services[i].waiting = 0
    /\ \A i \in 1..Len(m.counters) :
          /\ m.counters[i].status
               = IF m.counters[i].id \in {1, 2} THEN "active" ELSE "inactive"
          /\ m.counters[i].currentlyServing = Null

\* C15: clearAllData, from any state, leaves the tab with an empty queue and
\* the seed services and counters, when it returns and when the tab has
\* settled, and the next addToQueue("general") issues "A001"
C15_ClearAllDataResets ==
    LET m == clearAllData(TabState(1))
    IN  /\ IsSeed(m)
        /\ IsSeed(RunEffects(m))
        /\ \A priority \in Priorities :
              /\ addToQueue(m, "general", priority, now, now).ret = "A001"
              /\ addToQueue(RunEffects(m), "general", priority, now, now).ret = "A001"

(***************************************************************************)
(* Properties of the store round trip and of the readers (Spec).           *)
(***************************************************************************)
\* the store after the three save effects of a render of tab 1 (lines 198-215)
Saved ==
    RunPending([render(TabState(1)) EXCEPT
                   !.pending = <<"saveServices", "saveCounters", "saveQueue">>]).store

\* a temporal field that is a Date, or absent
IsTemporal(d) == d.kind \in {"Date", "Invalid Date", "undefined"}

\* C16: saving services, counters and queue and loading them back gives
\* collections equal to the saved ones, every ticket's timestamp, calledAt and
\* completedAt being a Date again and not text
C16_RoundTrip ==
    LET loadedServices == loadFromStorage(Saved, "queueServices", InitialServices)
        loadedCounters == loadFromStorage(Saved, "queueCounters", InitialCounters)
        loadedQueue == loadFromStorage(Saved, "queueData", <<>>)
    IN  /\ loadedServices = services[1]
        /\ loadedCounters = counters[1]
        /\ loadedQueue = queue[1]
        /\ \A i \in 1..Len(loadedQueue) :
              /\ IsTemporal(loadedQueue[i].timestamp)
              /\ IsTemporal(loadedQueue[i].calledAt)
              /\ IsTemporal(loadedQueue[i].completedAt)

(***************************************************************************)
(* Properties of the reconciliation listeners (SpecListeners).             *)
(***************************************************************************)
\* the timeouts of tab 1 that will call syncFromStorage
PendingTimeouts ==
    Len(listeners.delayed) + (IF listeners.syncTimeout >= 0 THEN 1 ELSE 0)

\* C17: the triggers that arrive within one debounce window cause one call
\* of syncFromStorage, not one per trigger: at no moment more than one
\* timeout that calls it is pending
C17_OneReloadPerWindow == PendingTimeouts <= 1

\* C18: after the cleanup of the listeners effect no timeout of the tab fires
\* and calls syncFromStorage, timeouts pending at the cleanup included
C18_NoReloadAfterCleanup ==
    [][~listeners.mounted =>
          /\ Len(listeners'.delayed) = Len(listeners.delayed)
          /\ (listeners.syncTimeout >= 0 => listeners'.syncTimeout >= 0)]_vars

(***************************************************************************)
(* Properties of the readers (SpecScenario, SpecOrder).                    *)
(* getAllWaitingTickets (lines 425-428): filter makes a new array, which   *)
(* sort orders in place; the queue is not written.  The readers are        *)
(* closures of a render and read its queue.                                *)
(***************************************************************************)
\* the waiting tickets by priority, then time
WaitingTicketsByPriority(q) ==
    Sort("priority", SelectSeq(q, LAMBDA ticket : ticket.status = "waiting"))

\* all tickets by time
AllTicketsByTime(q) == Sort("timestamp", q)

getAllWaitingTickets(q) ==
    Sort("timestamp", SelectSeq(q, LAMBDA ticket : ticket.status = "waiting"))

\* the tickets of the scenario in the queue q: Alice's is the normal one,
\* Bob's the vip one
AliceIn(q) == SelectSeq(q, LAMBDA ticket : ticket.priority = "normal")
BobIn(q) == SelectSeq(q, LAMBDA ticket : ticket.priority = "vip")

\* q holds one ticket of Alice and one of Bob, and both wait
BothWait(q) ==
    /\ Len(AliceIn(q)) = 1
    /\ Len(BobIn(q)) = 1
    /\ getWaitingCount(q, "general") = Len(q)

\* both calls of the scenario have been made, the tab has rendered them and
\* run the effects
ScenarioDone == result.calls = 2 /\ Idle(1)

ShownByCreationTime ==
    LET q == rendered[1].queue
    IN  /\ \A i \in 1..Len(AliceIn(q)) : AliceIn(q)[i].number = "A001"
        /\ BothWait(q) =>
              /\ getWaitingCount(q, "general") = 2
              /\ getAllWaitingTickets(q)
                   = IF BobIn(q)[1].timestamp.ms > AliceIn(q)[1].timestamp.ms
                     THEN AliceIn(q) \o BobIn(q)
                     ELSE BobIn(q) \o AliceIn(q)

\* Bob's call returns A002 when the render it reads shows Alice's ticket
BobAfterAlice ==
    (result.calls = 1 /\ result'.calls = 2 /\ AliceIn(rendered[1].queue) # <<>>)
        => result'.text = "A002"

Occurrences(q, t) == Cardinality({i \in 1..Len(q) : q[i] = t})

\* C20: getAllWaitingTickets returns the tickets of the queue whose status is
\* waiting, of every service, each as often as the queue holds it, in
\* ascending order of creation time whatever their priority
C20_AllWaitingByTime ==
    LET tickets == getAllWaitingTickets(queue[1])
    IN  /\ \A i \in 1..Len(tickets) : tickets[i].status = "waiting"
        /\ \A i \in 1..Len(queue[1]) :
              queue[1][i].status = "waiting" =>
                  Occurrences(tickets, queue[1][i]) = Occurrences(queue[1], queue[1][i])
        /\ \A i \in 1..Len(tickets) :
              Occurrences(tickets, tickets[i]) = Occurrences(queue[1], tickets[i])
        /\ \A i, j \in 1..Len(tickets) :
              i < j => tickets[i].timestamp.ms <= tickets[j].timestamp.ms

\* a later urgent ticket of one service is stored before an earlier normal ticket
\* of the other and listed after it; a third ticket is not waiting
C20_Witness ==
    LET tickets == getAllWaitingTickets(queue[1])
    IN  /\ Len(queue[1]) = 3
        /\ Len(tickets) = 2
        /\ tickets[1].priority = "normal" /\ tickets[2].priority = "urgent"
        /\ tickets[1].serviceType # tickets[2].serviceType
        /\ tickets[1].timestamp.ms < tickets[2].timestamp.ms
        /\ \E i, j \in 1..3 :
              i < j /\ queue[1][i] = tickets[2] /\ queue[1][j] = tickets[1]

(***************************************************************************)
(* getTicketPosition (lines 413-422): the position as <<position>>, or     *)
(* <<>> for null.                                                          *)
(***************************************************************************)
\* Array.prototype.findIndex, 1-based here and 0 for no element (-1 there)
FindIndex(s, ticketId) ==
    LET hits == {i \in 1..Len(s) : s[i].id = ticketId}
    IN  IF hits = {} THEN 0 ELSE CHOOSE i \in hits : \A j \in hits : i <= j

\* lines 413-422
getTicketPosition(q, ticketId) ==
    LET ticket == Find(q, LAMBDA t : t.id = ticketId)
    IN  IF ticket = <<>> THEN <<>>
        ELSE IF ticket[1].status # "waiting" THEN <<>>
        ELSE LET waitingTickets ==
                     Sort("timestamp",
                          SelectSeq(q, LAMBDA t :
                             IsWaitingFor(t, ticket[1].serviceType)))
             IN  <<FindIndex(waitingTickets, ticketId)>>

\* the waiting tickets of ticket's service created before it, or not after it
CreatedBefore(q, ticket) ==
    {i \in 1..Len(q) : /\ IsWaitingFor(q[i], ticket.serviceType)
                       /\ q[i].timestamp.ms < ticket.timestamp.ms}
CreatedNotAfter(q, ticket) ==
    {i \in 1..Len(q) : /\ IsWaitingFor(q[i], ticket.serviceType)
                       /\ q[i].timestamp.ms <= ticket.timestamp.ms}

\* C21: getTicketPosition returns null for an id of no ticket or of a ticket
\* that is not waiting, and otherwise the 1-based rank of the ticket among the
\* waiting tickets of its service by creation time alone: after those created
\* before it, within those created at its time
C21_PositionByTimeOnly ==
    \A ticketId \in TicketIds(1) :
        LET ticket == Find(queue[1], LAMBDA t : t.id = ticketId)
            position == getTicketPosition(queue[1], ticketId)
        IN  IF ticket = <<>> \/ ticket[1].status # "waiting"
            THEN position = <<>>
            ELSE /\ position # <<>>
                 /\ position[1] > Cardinality(CreatedBefore(queue[1], ticket[1]))
                 /\ position[1] <= Cardinality(CreatedNotAfter(queue[1], ticket[1]))

(***************************************************************************)
(* Properties of loadFromStorage on other texts (SpecLoad).                *)
(***************************************************************************)
\* C22: loading a key whose stored text is corrupt or cannot be parsed returns
\* the default of the key
C22_CorruptGivesDefault ==
    \A key \in QueueKeys :
        (result.op = "loadFromStorage" /\ result.text = key
           /\ localStorage[key].form \in JunkForms)
          => loadFromStorage(localStorage, key, DefaultOf(key)) = DefaultOf(key)

(***************************************************************************)
(* Further properties of addToQueue (SpecSeq).                             *)
(***************************************************************************)
\* C23: addToQueue with a serviceType of no service returns "" and leaves the
\* queue, every service (currentNumber included), the counters and the store
\* as they are, and queues no update
C23_UnknownServiceRejected ==
    \A priority \in Priorities :
        LET r == addToQueue(TabState(1), "unknown", priority, now, now)
        IN  /\ r.ret = ""
            /\ r.m = TabState(1)

\* the last call was rejected and the tab holds a ticket and an issued number
C23_Witness ==
    /\ result.op = "addToQueue"
    /\ result.text = ""
    /\ Len(queue[1]) = 1
    /\ services[1][1].currentNumber = 1


(***************************************************************************)
(* Properties of two tabs that call the next ticket (SpecCalls).           *)
(***************************************************************************)
\* C24: across all tabs a ticket is handed out by at most one successful
\* callNext: no two entries of the calls' returns carry the same id
C24_HandedOutByOneTab ==
    \A i, j \in Indices(returned) :
        i # j => returned[i].id # returned[j].id

(***************************************************************************)
(* Properties of two tabs that both issue tickets (SpecIssue).             *)
(***************************************************************************)
\* no two tickets of q belong to one service and carry one number
NumbersDistinct(q) ==
    \A i, j \in Indices(q) :
        (i # j /\ q[i].serviceType = q[j].serviceType) => q[i].number # q[j].number

\* C25: with two tabs issuing tickets in any interleaving, no two tickets of a
\* service carry the same number, in any tab's queue and in the persisted queue
C25_NumbersDistinctEverywhere ==
    /\ \A t \in Tabs : NumbersDistinct(queue[t])
    /\ NumbersDistinct(loadFromStorage(localStorage, "queueData", <<>>))

(***************************************************************************)
(* Further properties of two tabs (SpecTabs): the persisted queue.         *)
(***************************************************************************)
\* the queue a reader of the store gets
PersistedQueue == loadFromStorage(localStorage, "queueData", <<>>)

\* the order of the ticket life cycle (lines 28, 262, 311, 345)
StatusRank(status) ==
    CASE status = "waiting" -> 0
      [] status = "serving" -> 1
      [] status = "completed" -> 2

\* C26: without clearAllData, a ticket of the persisted queue is in the
\* persisted queue after every step, with a status that is not an earlier one
C26_PersistedTicketsStay ==
    [][\A i \in Indices(PersistedQueue) :
          \E j \in Indices(PersistedQueue') :
              /\ PersistedQueue'[j].id = PersistedQueue[i].id
              /\ StatusRank(PersistedQueue'[j].status)
                   >= StatusRank(PersistedQueue[i].status)
      ]_vars

(***************************************************************************)
(* Further properties of one tab whose calls come one after the other      *)
(* (SpecSeq, SpecOrder): the order addToQueue leaves, the ids.             *)
(***************************************************************************)
\* the queue addToQueue leaves, and the ticket it created (lines 245-260)
QueueAfterAdd(serviceType, priority) ==
    addToQueue(TabState(1), serviceType, priority, now, now).m.queue

IssuedBy(serviceType, priority) ==
    LET service == Find(rendered[1].services, LAMBDA s : s.id = serviceType)
    IN  NewTicket(service[1], serviceType, priority,
                  getWaitingCount(rendered[1].queue, serviceType), now, now)

\* what the comparator reads of the ticket at index `at` of the array sorted
KeyOf(ticket, at) ==
    [status |-> ticket.status, priority |-> ticket.priority,
     timestamp |-> ticket.timestamp, at |-> at]

\* [...prev, newTicket] sorted (lines 263-275), as the indices of that array
SortedIndices(prev, newTicket) ==
    InsertTicket([i \in Indices(prev) |-> KeyOf(prev[i], i)],
                 KeyOf(newTicket, Len(prev) + 1))

Changed(q, r) == {i \in Indices(q) : q[i] # r[i]}

\* C28: the tickets of the queue have pairwise distinct ids whatever the times
\* of the addToQueue calls, and a successful callNext and a completeService of
\* a serving ticket's id each change exactly one ticket
C28_IdsDistinct ==
    /\ \A i, j \in Indices(queue[1]) :
           i # j => queue[1][i].id # queue[1][j].id
    /\ \A counterId \in CounterInputs, serviceType \in ServiceIds :
           LET r == callNext(TabState(1), counterId, serviceType, now, FALSE)
           IN  r.ret # <<>> => Cardinality(Changed(queue[1], r.m.queue)) = 1
    /\ \A i \in Indices(queue[1]) :
           queue[1][i].status = "serving"
           => Cardinality(Changed(queue[1],
                  completeService(TabState(1), queue[1][i].id, now, FALSE).queue)) = 1

(***************************************************************************)
(* Further properties of the calls of one tab, made at any moment (Spec).  *)
(***************************************************************************)
\* ticket x is being served at counter c
ServingAt(x, c) == x.status = "serving" /\ x.counterAssigned = c.id

\* C29: in one tab that has settled, a counter's currentlyServing is the
\* number of a ticket that is serving with counterAssigned equal to the
\* counter, and it is null exactly when no ticket is serving at the counter
C29_CounterShowsItsTicket ==
    Idle(1) =>
    \A c \in Range(counters[1]) :
        /\ c.currentlyServing # Null
             => \E x \in Range(queue[1]) :
                    ServingAt(x, c) /\ x.number = c.currentlyServing
        /\ c.currentlyServing = Null
             <=> ~\E x \in Range(queue[1]) : ServingAt(x, c)

\* the number of tickets of q that belong to the service and are completed
CompletedCount(q, serviceType) ==
    Cardinality({i \in Indices(q) :
                    q[i].serviceType = serviceType /\ q[i].status = "completed"})

\* C30: in one tab that has settled, every service's served equals the
\* number of its tickets whose status is completed
C30_ServedCountsCompleted ==
    Idle(1) =>
    \A s \in Range(services[1]) : s.served = CompletedCount(queue[1], s.id)

(***************************************************************************)
(* Properties of a tab that is opened while another works (SpecOpen).      *)
(***************************************************************************)
\* the effects of tab t's first render have not run yet
StartingUp(t) == pending[t] = MountEffects

\* C31: the save effects of a tab's start-up leave the store as it is,
\* whatever the other tab wrote since the tab loaded its state
C31_OpeningKeepsStore ==
    [][\A t \in Tabs :
          (StartingUp(t) /\ pending'[t] = <<>>)
          => localStorage' = localStorage
      ]_vars

====
